---- MODULE Spec2Model ----
(***************************************************************************)
(* MacDbNavigator: the SQL editor's statement splitter and sequential      *)
(* executor (client/src/components/sql-editor.tsx), the server's query and *)
(* table-update endpoints (server/routes.ts) and the file-backed storage   *)
(* that keeps the query history (server/file-storage.ts).                  *)
(*                                                                         *)
(* Texts are sequences of one-character strings.  The database behind a    *)
(* connection is an external collaborator and is modelled by a small       *)
(* stateful fake: see Execute.                                             *)
(***************************************************************************)
EXTENDS Integers, Sequences, FiniteSets, TLC

\* ------------------------------------------------------------------ bounds
\* Longest editor buffer, in characters.
MaxLen == 5
\* Most rows in a result grid, and most changes in one update request.
MaxRows == 2
MaxChanges == 2

\* ------------------------------------------------------------------ texts
\* The characters of the model: two letters, the separator, whitespace.
Alphabet == {"a", "b", ";", " "}

Buffers == UNION {[1..n -> Alphabet] : n \in 0..MaxLen}

\* null in a numeric field (ids, counts and times are never negative).
NULL == 0 - 1

\* String.prototype.trim: strips the whitespace at both ends.
RECURSIVE TrimStart(_)
TrimStart(s) ==
    IF s = <<>> THEN <<>>
    ELSE IF Head(s) = " " THEN TrimStart(Tail(s)) ELSE s

RECURSIVE TrimEnd(_)
TrimEnd(s) ==
    IF s = <<>> THEN <<>>
    ELSE IF s[Len(s)] = " " THEN TrimEnd(SubSeq(s, 1, Len(s) - 1)) ELSE s

Trim(s) == TrimEnd(TrimStart(s))

\* String.prototype.includes(";")
Includes(s, c) == \E i \in 1..Len(s) : s[i] = c

\* String.prototype.split(";"): the pieces between the separators, empty
\* pieces included; a text with k separators has k + 1 pieces.
RECURSIVE SplitFrom(_, _, _, _)
SplitFrom(s, sep, i, cur) ==
    IF i > Len(s) THEN <<cur>>
    ELSE IF s[i] = sep THEN <<cur>> \o SplitFrom(s, sep, i + 1, <<>>)
    ELSE SplitFrom(s, sep, i + 1, Append(cur, s[i]))

SplitSemicolon(s) == SplitFrom(s, ";", 1, <<>>)

\* Array.prototype.map(stmt => stmt.trim())
MapTrim(parts) == [k \in 1..Len(parts) |-> Trim(parts[k])]

\* Array.prototype.filter(stmt => stmt.length > 0)
RECURSIVE FilterNonEmpty(_)
FilterNonEmpty(parts) ==
    IF parts = <<>> THEN <<>>
    ELSE IF Len(Head(parts)) > 0
         THEN <<Head(parts)>> \o FilterNonEmpty(Tail(parts))
         ELSE FilterNonEmpty(Tail(parts))

\* queryToExecute.split(";").map(trim).filter(nonempty)
SplitStatements(q) == FilterNonEmpty(MapTrim(SplitSemicolon(q)))


\* ------------------------------------------------------- the fake database
\* The database name of the editor tab (the databaseName prop) and the
\* default database of the stored connection.
TabDatabase == "shop"
DefaultDatabase == "main"

\* A fresh session, as mysql.createConnection / new Client() opens it: no
\* session-local state.
NewSession == [v |-> 0, searchPath |-> "default"]

\* What a statement does is decided by the first character of its trimmed
\* text: "a..." stands for a statement that establishes session-local state
\* (SET @v = 1, BEGIN, CREATE TEMPORARY TABLE), "b..." for a statement that
\* reads it back (SELECT @v); anything else is a syntax error.
StatementKind(q) ==
    LET t == Trim(q) IN
    IF t = <<>> THEN "invalid"
    ELSE IF Head(t) = "a" THEN "write"
    ELSE IF Head(t) = "b" THEN "read"
    ELSE "invalid"

\* connection.execute(query) / client.query(query) on a session: the
\* outcome, the rows and the session afterwards.  env = FALSE stands for
\* any failure raised by the database.
Execute(q, session, env) ==
    LET kind == StatementKind(q) IN
    IF ~env \/ kind = "invalid"
    THEN [ok |-> FALSE, rows |-> <<>>, isArray |-> FALSE, session |-> session]
    ELSE IF kind = "write"
    THEN [ok |-> TRUE, rows |-> <<>>, isArray |-> FALSE,
          session |-> [session EXCEPT !.v = 1]]
    ELSE [ok |-> TRUE, rows |-> <<[v |-> session.v]>>, isArray |-> TRUE,
          session |-> session]

\* ------------------------------------------------------------ file storage
\* The data file does not exist (or does not parse).
NoFile == [nofile |-> TRUE]

\* storage.getConnection found nothing (undefined).
NoConnection == [missing |-> TRUE]

\* `x || null`: a falsy x (0, NaN, undefined) becomes null.
OrNull(x) == IF x = 0 THEN NULL ELSE x

\* FileStorage.saveData: writes this.data to the file; the write may fail.
SaveData(st, writeOk) ==
    IF writeOk
    THEN [file |-> st.mem, mem |-> st.mem, threw |-> FALSE]
    ELSE [file |-> st.file, mem |-> st.mem, threw |-> TRUE]

\* FileStorage.loadData: this.data is replaced by the file's content; when
\* the file cannot be read the in-memory data is written out instead.
LoadData(st, writeOk) ==
    IF st.file # NoFile
    THEN [file |-> st.file, mem |-> st.file, threw |-> FALSE]
    ELSE SaveData(st, writeOk)

\* FileStorage.getConnection
RECURSIVE FindConnection(_, _)
FindConnection(conns, id) ==
    IF conns = <<>> THEN NoConnection
    ELSE IF Head(conns).id = id THEN Head(conns)
    ELSE FindConnection(Tail(conns), id)

\* FileStorage.addQueryHistory: load, stamp the entry with the next id,
\* push, save.
HistoryEntry(mem, ins) ==
    [id |-> mem.nextHistoryId,
     query |-> ins.query,
     connectionId |-> OrNull(ins.connectionId),
     executionTime |-> OrNull(ins.executionTime),
     rowCount |-> OrNull(ins.rowCount)]

AddQueryHistory(st, ins, writeOk) ==
    LET l == LoadData(st, writeOk) IN
    IF l.threw THEN l
    ELSE LET m == [l.mem EXCEPT
                     !.nextHistoryId = @ + 1,
                     !.queryHistories = Append(@, HistoryEntry(l.mem, ins))]
         IN SaveData([file |-> l.file, mem |-> m], writeOk)


\* --------------------------------------------------------------- the state
VARIABLES
    editor,              \* "monaco" when monacoEditorRef.current is set, else "textarea"
    content,             \* the tab's buffer (content prop / Monaco model value)
    selectedText,        \* the component's selectedText state (textarea handlers)
    monacoSelection,     \* the text of the Monaco selection range
    connectionId,        \* the editor's connectionId prop, 0 when undefined
    activeConnectionId,  \* the store's activeConnectionId, 0 when null
    isExecuting,         \* the store's isExecuting flag
    queryResults,        \* the store's queryResults
    mutationStatus,      \* the state of executeQueryMutation
    toasts,              \* the toasts shown so far, as a set of titles
    invalidated,         \* the ["/api/query-history"] cache was invalidated
    run,                 \* the submission in progress
    request,             \* the execute request in flight
    response,            \* the response on its way back
    sent,                \* every request the client has sent, in order
    served,              \* every statement the server has run, in order
    store,               \* FileStorage: the data file and this.data
    table,               \* the rows of the table behind the result grid
    updRequest,          \* the update request in flight
    updResponse,         \* the response of the update endpoint
    issued,              \* the UPDATEs the update endpoint has executed
    handled,             \* the update request the endpoint handled last
    statement,           \* the statement prop of the result grid
    resultRows,          \* queryResult.rows, the rows of the result shown
    currentPage,         \* the page of the grid, from 1
    editingCell,         \* the cell in edit mode
    editingValue,        \* the text in the cell's input
    pendingChanges,      \* the Map of pending edits, in insertion order
    updateStatus,        \* the state of updateMutation
    tabDatabase,         \* activeTab?.databaseName, "" when there is none
    lastQueryConn,       \* lastQuery?.connectionId, 0 when there is none
    inferred,            \* the table name a render has computed, if any
    edits,               \* every edit committed to the pending Map, in order
    collected,           \* the pending Map as the save in flight collected it
    queryHistory,        \* the store's queryHistory array
    resultOf,            \* the statement whose run produced the result shown
    runs,                \* the runs of the editor started so far
    ops                  \* the calls of FileStorage methods started so far

editorVars == <<editor, content, selectedText, monacoSelection, connectionId,
                activeConnectionId, isExecuting, queryResults, mutationStatus,
                toasts, invalidated, run, request, response, sent, served>>

updateVars == <<table, updRequest, updResponse, issued, handled>>

\* The state followed only where history refreshes, overlapping runs and
\* overlapping storage calls are.
otherVars == <<queryHistory, resultOf, runs, ops>>

gridVars == <<statement, resultRows, currentPage, editingCell, editingValue,
              pendingChanges, updateStatus, tabDatabase, lastQueryConn,
              inferred, edits, collected, otherVars>>

vars == <<editorVars, store, updateVars, gridVars>>

NoResults == [none |-> TRUE]
NoMessage == [none |-> TRUE]

ConnTypes == {"mysql", "postgresql"}

\* The stored connection, as createConnection made it.
StoredConnection(type) ==
    [id |-> 1, type |-> type, database |-> DefaultDatabase]

StoredData(type) ==
    [connections |-> <<StoredConnection(type)>>,
     queryHistories |-> <<>>,
     nextConnectionId |-> 2,
     nextHistoryId |-> 1]

\* this.data as the FileStorage constructor sets it.
EmptyData ==
    [connections |-> <<>>,
     queryHistories |-> <<>>,
     nextConnectionId |-> 1,
     nextHistoryId |-> 1]

NotInferred == [done |-> FALSE, table |-> <<>>]
NoCell == [none |-> TRUE]

\* The result grid before any result is shown.
OthersAtRest ==
    /\ queryHistory = <<>>
    /\ resultOf = <<>>
    /\ runs = <<>>
    /\ ops = <<>>

GridAtRest ==
    /\ statement = <<>>
    /\ resultRows = <<>>
    /\ currentPage = 1
    /\ editingCell = NoCell
    /\ editingValue = ""
    /\ pendingChanges = <<>>
    /\ updateStatus = "idle"
    /\ tabDatabase = ""
    /\ lastQueryConn = 0
    /\ inferred = NotInferred
    /\ edits = <<>>
    /\ collected = <<>>
    /\ OthersAtRest

IdleRun ==
    [phase |-> "idle", path |-> "none", query |-> <<>>, selection |-> FALSE,
     split |-> FALSE, statements |-> <<>>, i |-> 0, results |-> <<>>,
     error |-> "none", outcome |-> "none", stored |-> FALSE, failedAt |-> 0]

\* What the user has selected: nothing, or the whole buffer (every text of
\* up to MaxLen characters is the whole of some buffer).
Selections(buf) == {<<>>, buf}

\* The editor component after mounting, with some text in the buffer and
\* possibly a selection.  executeQuery branches on monacoEditorRef.current;
\* both branches of it are followed.
Init ==
    /\ editor \in {"textarea", "monaco"}
    /\ content \in Buffers
    /\ \E sel \in Selections(content) :
          /\ selectedText = (IF editor = "textarea" THEN sel ELSE <<>>)
          /\ monacoSelection = (IF editor = "monaco" THEN sel ELSE <<>>)
    /\ connectionId \in {0, 1}
    /\ activeConnectionId \in {0, 1}
    /\ isExecuting = FALSE
    /\ queryResults = NoResults
    /\ mutationStatus = "idle"
    /\ toasts = {}
    /\ invalidated = FALSE
    /\ run = IdleRun
    /\ request = NoMessage
    /\ response = NoMessage
    /\ sent = <<>>
    /\ served = <<>>
    /\ \E type \in ConnTypes :
          store = [file |-> StoredData(type), mem |-> EmptyData]
    /\ table = <<>>
    /\ updRequest = NoMessage
    /\ updResponse = NoMessage
    /\ issued = <<>>
    /\ handled = NoMessage
    /\ GridAtRest


\* ------------------------------------------------------------- the client
\* connectionId || activeConnectionId
ConnId == IF connectionId # 0 THEN connectionId ELSE activeConnectionId

\* connections.find(c => c.id === (connectionId || activeConnectionId)):
\* the sidebar's connection list holds the stored connection.
ActiveConnectionFound == ConnId = 1

\* The body of an execute request and the connection id in its URL.
ExecuteRequest(q, conn) ==
    [query |-> q, connId |-> conn, database |-> TabDatabase]

\* executeQuery: the text to run, from the selection or the whole buffer.
QueryToExecute ==
    IF editor = "monaco"
    THEN IF Trim(monacoSelection) # <<>> THEN monacoSelection ELSE content
    ELSE IF Trim(selectedText) # <<>> THEN selectedText ELSE content

\* The guard of the split in executeQuery: it reads the component's
\* selectedText state (the Monaco branch's selectedText is a block-local
\* constant that is out of scope here).
SplitGuard(q) == Trim(selectedText) = <<>> /\ Includes(q, ";")

\* The user has a non-blank selection in the editor in use.
HasSelection ==
    IF editor = "monaco" THEN Trim(monacoSelection) # <<>>
    ELSE Trim(selectedText) # <<>>

\* executeMultipleStatements up to its first await: the flag is raised and
\* the first statement is sent.
StartMultiple(q, statements) ==
    /\ isExecuting' = TRUE
    /\ toasts' = toasts \cup {"Executing statement"}
    /\ run' = [IdleRun EXCEPT !.phase = "waiting", !.path = "multi",
                 !.query = q, !.selection = HasSelection, !.split = TRUE,
                 !.statements = statements, !.i = 1]
    /\ request' = ExecuteRequest(statements[1], connectionId)
    /\ sent' = Append(sent, ExecuteRequest(statements[1], connectionId))
    /\ UNCHANGED <<mutationStatus>>

\* executeQueryMutation.mutate(q) up to the fetch: onMutate raises the flag;
\* without a connection id the mutation function throws at once, onError and
\* onSettled run and nothing is sent.
StartSingle(q, didSplit, statements) ==
    LET r == [IdleRun EXCEPT !.path = "single", !.query = q,
                !.selection = HasSelection, !.split = didSplit,
                !.statements = statements]
    IN
    /\ toasts' = toasts
    /\ IF ConnId = 0
       THEN /\ isExecuting' = FALSE
            /\ mutationStatus' = "error"
            /\ run' = [r EXCEPT !.phase = "done", !.error = "connection",
                         !.outcome = "rejected"]
            /\ UNCHANGED <<request, sent>>
       ELSE /\ isExecuting' = TRUE
            /\ mutationStatus' = "pending"
            /\ run' = [r EXCEPT !.phase = "waiting", !.i = 1]
            /\ request' = ExecuteRequest(q, ConnId)
            /\ sent' = Append(sent, ExecuteRequest(q, ConnId))

\* statements.length > 1: the buffer goes down the multi-statement path.
IsMultiple_AtLeastOne(statements) == Len(statements) >= 1
IsMultiple(statements) == Len(statements) > 1

\* executeQuery, started from the Run button (disabled while isExecuting or
\* without an active connection) or from the Monaco Ctrl/Cmd+Enter command.
\* One submission is followed from start to end.
ExecuteQuery(via) ==
    /\ run.phase = "idle"
    /\ via = "button" => ~isExecuting /\ ActiveConnectionFound
    /\ via = "command" => editor = "monaco"
    /\ LET q == QueryToExecute IN
       IF Trim(q) = <<>>
       THEN /\ toasts' = toasts \cup {"No query to execute"}
            /\ UNCHANGED <<isExecuting, mutationStatus, run, request, sent>>
       ELSE IF SplitGuard(q)
       THEN LET statements == SplitStatements(q) IN
            IF IsMultiple(statements)
            THEN StartMultiple(q, statements)
            ELSE StartSingle(q, TRUE, statements)
       ELSE StartSingle(q, FALSE, <<>>)
    /\ UNCHANGED <<editor, content, selectedText, monacoSelection,
                   connectionId, activeConnectionId, queryResults,
                   invalidated, response, served, store, updateVars, gridVars>>


\* ------------------------------------------------------------- the server
\* Date.now() - startTime, in milliseconds.
ElapsedMs == {0, 1}

\* The database a session of the query endpoint is opened on: the MySQL
\* branch passes connection.database, the PostgreSQL branch
\* database || connection.database || "postgres".
QueryTargetDatabase(conn, req) ==
    IF conn.type = "mysql" THEN conn.database
    ELSE IF req.database # "" THEN req.database
    ELSE IF conn.database # "" THEN conn.database
    ELSE "postgres"

\* The session the statement runs on: both branches open a new one for the
\* request; the PostgreSQL branch sets the search path on it first.
OpenSession(conn, req) ==
    IF conn.type = "postgresql" /\ QueryTargetDatabase(conn, req) # "postgres"
    THEN [NewSession EXCEPT !.searchPath = QueryTargetDatabase(conn, req)]
    ELSE NewSession

\* The QueryResult built from the driver's answer: MySQL counts the rows
\* when they are an array, PostgreSQL takes rowCount || 0.
BuildResult(ex, elapsed) ==
    [columns |-> IF ex.isArray THEN <<"v">> ELSE <<>>,
     rows |-> ex.rows,
     rowCount |-> IF ex.isArray THEN Len(ex.rows) ELSE 0,
     executionTime |-> elapsed]

OkResponse(result) == [ok |-> TRUE, status |-> 200, body |-> result]
ErrorResponse(status, message) ==
    [ok |-> FALSE, status |-> status, body |-> message]

\* The history appends of the query endpoint and the response they lead to.
\* After a successful statement the entry carries the result's row count;
\* the catch block appends an entry with rowCount 0, also when what threw
\* was the first append; a throw out of the catch block reaches the outer
\* handler.
RespondAfterExecute(st, req, ex, elapsed, w1, w2) ==
    LET id == req.connId
        okIns == [connectionId |-> id, query |-> req.query,
                  executionTime |-> elapsed,
                  rowCount |-> BuildResult(ex, elapsed).rowCount]
        failIns == [connectionId |-> id, query |-> req.query,
                    executionTime |-> elapsed, rowCount |-> 0]
        first == IF ex.ok THEN AddQueryHistory(st, okIns, w1)
                 ELSE AddQueryHistory(st, failIns, w1)
        second == AddQueryHistory([file |-> first.file, mem |-> first.mem],
                                  failIns, w2)
    IN
    IF ex.ok /\ ~first.threw
    THEN [store |-> [file |-> first.file, mem |-> first.mem],
          response |-> OkResponse(BuildResult(ex, elapsed))]
    ELSE IF ~ex.ok
    THEN [store |-> [file |-> first.file, mem |-> first.mem],
          response |-> IF first.threw
                       THEN ErrorResponse(500, "Failed to save connection data")
                       ELSE ErrorResponse(500, "Query execution failed")]
    ELSE [store |-> [file |-> second.file, mem |-> second.mem],
          response |-> IF second.threw
                       THEN ErrorResponse(500, "Failed to save connection data")
                       ELSE ErrorResponse(500, "Query execution failed")]

\* POST /api/connections/:id/query, from the arrival of the request to the
\* response.
QueryEndpoint ==
    /\ request # NoMessage
    /\ \E env \in BOOLEAN, w0 \in BOOLEAN, w1 \in BOOLEAN, w2 \in BOOLEAN,
          elapsed \in ElapsedMs :
        LET req == request
            loaded == LoadData(store, w0)
            conn == FindConnection(loaded.mem.connections, req.connId)
            session == OpenSession(conn, req)
            ex == Execute(req.query, session, env)
            out == RespondAfterExecute([file |-> loaded.file, mem |-> loaded.mem],
                                       req, ex, elapsed, w1, w2)
        IN
        IF req.query = <<>>
        THEN /\ response' = ErrorResponse(400, "Query is required")
             /\ UNCHANGED <<store, served>>
        ELSE IF loaded.threw
        THEN /\ response' = ErrorResponse(500, "Failed to save connection data")
             /\ store' = [file |-> loaded.file, mem |-> loaded.mem]
             /\ UNCHANGED served
        ELSE IF conn = NoConnection
        THEN /\ response' = ErrorResponse(404, "Connection not found")
             /\ store' = [file |-> loaded.file, mem |-> loaded.mem]
             /\ UNCHANGED served
        ELSE /\ response' = out.response
             /\ store' = out.store
             /\ served' = Append(served,
                    [query |-> req.query, connId |-> req.connId,
                     database |-> QueryTargetDatabase(conn, req),
                     sessionBefore |-> session, sessionAfter |-> ex.session,
                     ok |-> ex.ok, closed |-> ex.ok,
                     result |-> BuildResult(ex, elapsed)])
    /\ request' = NoMessage
    /\ UNCHANGED <<editor, content, selectedText, monacoSelection,
                   connectionId, activeConnectionId, isExecuting,
                   queryResults, mutationStatus, toasts, invalidated, run,
                   sent, updateVars, gridVars>>


\* ------------------------------------------- the client, on the response
\* The envelope executeMultipleStatements stores after its last statement.
MultiEnvelope_Counted(results) ==
    [columns |-> <<"Multi-Statement Results">>,
     rows |-> <<>>,
     rowCount |-> Len(results),
     executionTime |-> 0,
     multiStatementResults |-> results]
MultiEnvelope(results) ==
    [columns |-> <<"Multi-Statement Results">>,
     rows |-> <<>>,
     rowCount |-> 0,
     executionTime |-> 0,
     multiStatementResults |-> results]

\* What the loop of executeMultipleStatements pushes for statement i.
MultiEntry(statements, i, result) ==
    [statement |-> statements[i], result |-> result, index |-> i]

\* The index of the statement the loop of executeMultipleStatements turns to
\* after statement i (i++).
NextIndex_Skip(i) == i + 2
NextIndex(i) == i + 1

\* The loop goes on to statement next: a response that is not ok throws out
\* of the loop, and the loop ends after the last statement.
LoopContinues_IgnoreFailure(ok, next, n) == next <= n
LoopContinues(ok, next, n) == ok /\ next <= n

\* setQueryResults is reached: only by falling out of the loop, never from
\* the catch block.
EnvelopeStored(ok, next, n) == ok /\ next > n

\* How the promise of the run settles on a failed statement: the mutation
\* rejects; executeMultipleStatements catches the error and returns.
SettledOnFailure(path) == IF path = "single" THEN "rejected" ELSE "resolved"

\* executeQueryMutation, from the response of fetch to onSettled.
SingleResponse ==
    /\ run.phase = "waiting"
    /\ run.path = "single"
    /\ response # NoMessage
    /\ IF response.ok
       THEN /\ queryResults' = response.body
            /\ invalidated' = TRUE
            /\ mutationStatus' = "success"
            /\ run' = [run EXCEPT !.phase = "done", !.outcome = "resolved",
                         !.results = <<response.body>>, !.stored = TRUE]
       ELSE /\ mutationStatus' = "error"
            /\ run' = [run EXCEPT !.phase = "done",
                         !.outcome = SettledOnFailure("single"),
                         !.error = "statement", !.failedAt = run.i]
            /\ UNCHANGED <<queryResults, invalidated>>
    /\ isExecuting' = FALSE
    /\ response' = NoMessage
    /\ UNCHANGED <<editor, content, selectedText, monacoSelection,
                   connectionId, activeConnectionId, toasts, request, sent,
                   served, store, updateVars, gridVars>>

\* executeMultipleStatements, resumed by the response to statement run.i: a
\* failure throws out of the loop into the catch block, which logs to the
\* console; a success is pushed and the next statement is sent or, after the
\* last one, the envelope is stored.  The finally block lowers the flag.
MultiResponse ==
    /\ run.phase = "waiting"
    /\ run.path = "multi"
    /\ response # NoMessage
    /\ LET n == Len(run.statements)
           next == NextIndex(run.i)
           results == Append(run.results,
                             MultiEntry(run.statements, run.i, response.body))
           failedAt == IF ~response.ok /\ run.failedAt = 0 THEN run.i
                       ELSE run.failedAt
       IN
       IF LoopContinues(response.ok, next, n)
       THEN /\ run' = [run EXCEPT !.results = results, !.i = next,
                         !.failedAt = failedAt]
            /\ request' = ExecuteRequest(run.statements[next], connectionId)
            /\ sent' = Append(sent,
                   ExecuteRequest(run.statements[next], connectionId))
            /\ toasts' = toasts \cup {"Executing statement"}
            /\ UNCHANGED <<queryResults, invalidated, isExecuting>>
       ELSE IF EnvelopeStored(response.ok, next, n)
       THEN /\ run' = [run EXCEPT !.phase = "done", !.outcome = "resolved",
                         !.results = results, !.stored = TRUE,
                         !.failedAt = failedAt]
            /\ queryResults' = MultiEnvelope(results)
            /\ invalidated' = TRUE
            /\ isExecuting' = FALSE
            /\ UNCHANGED <<request, sent, toasts>>
       ELSE /\ run' = [run EXCEPT !.phase = "done",
                         !.outcome = SettledOnFailure("multi"),
                         !.error = "statement", !.failedAt = failedAt]
            /\ isExecuting' = FALSE
            /\ UNCHANGED <<queryResults, invalidated, request, sent, toasts>>
    /\ response' = NoMessage
    /\ UNCHANGED <<editor, content, selectedText, monacoSelection,
                   connectionId, activeConnectionId, mutationStatus, served,
                   store, updateVars, gridVars>>

Next ==
    \/ \E via \in {"button", "command"} : ExecuteQuery(via)
    \/ QueryEndpoint
    \/ SingleResponse
    \/ MultiResponse

Spec == Init /\ [][Next]_vars


\* ------------------------------------------------- the update endpoint
\* Column names are texts; values are kept in their string form.
IdCol == <<"i", "d">>
NameCol == <<"n">>
CityCol == <<"c">>

\* A row object: its column/value pairs in key order (Object.keys).
RowWithId(id, name) ==
    <<[col |-> IdCol, val |-> id], [col |-> NameCol, val |-> name]>>
RowWithoutId(name, city) ==
    <<[col |-> NameCol, val |-> name], [col |-> CityCol, val |-> city]>>

\* The rows a table of either shape can hold.
RowPool(shape) ==
    IF shape = "id"
    THEN {RowWithId("7", "a"), RowWithId("8", "a")}
    ELSE {RowWithoutId("a", "x"), RowWithoutId("a", "y")}

Grids(shape) == UNION {[1..n -> RowPool(shape)] : n \in 1..MaxRows}

ColumnsOf(row) == {row[k].col : k \in 1..Len(row)}

\* The values typed into a cell.
NewValues == {"b", "9"}

Undefined == "undefined"

\* row[column]
Get(row, c) ==
    LET at == {k \in 1..Len(row) : row[k].col = c} IN
    IF at = {} THEN Undefined ELSE row[CHOOSE k \in at : TRUE].val

\* originalRow.id !== undefined
HasId_Never(row) == FALSE
HasId(row) == Get(row, IdCol) # Undefined

\* The UPDATE the endpoint builds for one change: the SET column, the
\* predicates of the WHERE clause with the number of the parameter each one
\* is compared to, and the bound parameters [newValue, ...whereValues].  The
\* MySQL branch numbers its `?` by position, the PostgreSQL branch writes
\* $2, $3, ...; both start the WHERE parameters after the new value.
WhereById == <<[col |-> IdCol, ph |-> 2]>>
WhereByAllColumns_FirstOnly(row) == <<[col |-> row[1].col, ph |-> 2]>>
WhereByAllColumns(row) ==
    [k \in 1..Len(row) |-> [col |-> row[k].col, ph |-> k + 1]]

WhereClause(row) ==
    IF HasId(row) THEN WhereById ELSE WhereByAllColumns(row)

WhereValues(row) ==
    IF HasId(row) THEN <<Get(row, IdCol)>>
    ELSE [k \in 1..Len(row) |-> row[k].val]

UpdateStatement(tableName, change, originalRow) ==
    [table |-> tableName,
     setCol |-> change.column,
     where |-> WhereClause(originalRow),
     params |-> <<change.newValue>> \o WhereValues(originalRow)]

\* The predicates of a statement with their parameters bound.
BoundWhere(stmt) ==
    [k \in 1..Len(stmt.where) |->
        [col |-> stmt.where[k].col, val |-> stmt.params[stmt.where[k].ph]]]

Matches(row, stmt) ==
    \A k \in 1..Len(stmt.where) :
        Get(row, stmt.where[k].col) = stmt.params[stmt.where[k].ph]

SetColumn(row, c, v) ==
    [k \in 1..Len(row) |->
        IF row[k].col = c THEN [row[k] EXCEPT !.val = v] ELSE row[k]]

ExecuteUpdate_NoEffect(rows, stmt, env) == [ok |-> env, rows |-> rows]

\* connection.execute(updateQuery, params) / client.query(updateQuery,
\* params): every matching row gets the new value; a column the table does
\* not have, or any failure of the database (env = FALSE), raises.
ExecuteUpdate(rows, stmt, env) ==
    LET known == UNION {ColumnsOf(rows[k]) : k \in 1..Len(rows)}
        cols == {stmt.setCol} \cup {stmt.where[k].col : k \in 1..Len(stmt.where)}
    IN
    IF ~env \/ (rows # <<>> /\ ~(cols \subseteq known))
    THEN [ok |-> FALSE, rows |-> rows]
    ELSE [ok |-> TRUE,
          rows |-> [k \in 1..Len(rows) |->
                      IF Matches(rows[k], stmt)
                      THEN SetColumn(rows[k], stmt.setCol, stmt.params[1])
                      ELSE rows[k]]]

\* The loop over the changes: one UPDATE per change, in order, each awaited;
\* the first one that throws ends the loop (failAt is the change at which
\* the database fails, 0 for none).  originalData[rowIndex] may be missing,
\* and reading its id then throws.
RECURSIVE RunUpdates(_, _, _, _, _)
RunUpdates(req, rows, k, failAt, acc) ==
    IF k > Len(req.changes) THEN [ok |-> TRUE, rows |-> rows, issued |-> acc]
    ELSE IF req.changes[k].rowIndex + 1 > Len(req.originalData)
    THEN [ok |-> FALSE, rows |-> rows, issued |-> acc]
    ELSE LET originalRow == req.originalData[req.changes[k].rowIndex + 1]
             stmt == UpdateStatement(req.tableName, req.changes[k], originalRow)
             ex == ExecuteUpdate(rows, stmt, k # failAt)
             entry == [stmt |-> stmt, change |-> k, ok |-> ex.ok]
         IN IF ex.ok
            THEN RunUpdates(req, ex.rows, k + 1, failAt, Append(acc, entry))
            ELSE [ok |-> FALSE, rows |-> rows, issued |-> Append(acc, entry)]

\* The database the updates run on: the MySQL branch opens the session on
\* connection.database, the PostgreSQL branch on
\* database || connection.database || "xiaoying".
UpdateTargetDatabase(conn, req) ==
    IF conn.type = "mysql" THEN conn.database
    ELSE IF req.database # "" THEN req.database
    ELSE IF conn.database # "" THEN conn.database
    ELSE "xiaoying"

\* An update request as the result grid posts it: the changes, the rows of
\* the page as originalData, the tab's database, no schema.
ChangesOver(cols) ==
    UNION {[1..n -> [rowIndex : 0..(MaxRows - 1), column : cols,
                     newValue : NewValues]] : n \in 1..MaxChanges}

PostUpdate ==
    /\ updRequest = NoMessage
    /\ handled = NoMessage
    /\ table # <<>>
    /\ \E conn \in {0, 1}, db \in {"", TabDatabase},
          changes \in ChangesOver(ColumnsOf(table[1])) :
          updRequest' = [connId |-> conn, tableName |-> "t",
                         changes |-> changes, originalData |-> table,
                         database |-> db, schema |-> ""]
    /\ UNCHANGED <<editorVars, store, table, updResponse, issued, handled,
                   gridVars>>

\* POST /api/connections/:id/table/:tableName/update, from the arrival of
\* the request to the response.  The sessions are ended only on the path
\* that reaches the end of the loop.
UpdateEndpoint ==
    /\ updRequest # NoMessage
    /\ \E failAt \in 0..Len(updRequest.changes), w0 \in BOOLEAN :
        LET req == updRequest
            loaded == LoadData(store, w0)
            conn == FindConnection(loaded.mem.connections, req.connId)
            out == RunUpdates(req, table, 1, failAt, <<>>)
        IN
        /\ store' = [file |-> loaded.file, mem |-> loaded.mem]
        /\ IF loaded.threw
           THEN /\ updResponse' =
                      ErrorResponse(500, "Failed to save connection data")
                /\ handled' = [request |-> req, database |-> "", closed |-> TRUE]
                /\ UNCHANGED <<table, issued>>
           ELSE IF conn = NoConnection
           THEN /\ updResponse' = ErrorResponse(404, "Connection not found")
                /\ handled' = [request |-> req, database |-> "", closed |-> TRUE]
                /\ UNCHANGED <<table, issued>>
           ELSE /\ updResponse' =
                      IF out.ok
                      THEN [ok |-> TRUE, status |-> 200,
                            body |-> [success |-> TRUE,
                                      updatedRows |-> Len(req.changes)]]
                      ELSE ErrorResponse(500, "update failed")
                /\ table' = out.rows
                /\ issued' = out.issued
                /\ handled' = [request |-> req,
                               database |-> UpdateTargetDatabase(conn, req),
                               closed |-> out.ok]
    /\ updRequest' = NoMessage
    /\ UNCHANGED <<editorVars, gridVars>>

\* The editor at rest, for the behaviours of the update endpoint and of the
\* result grid; conn is the connection selected, 0 for none.
EditorAtRestOn(conn) ==
    /\ editor = "textarea"
    /\ content = <<>>
    /\ selectedText = <<>>
    /\ monacoSelection = <<>>
    /\ connectionId = conn
    /\ activeConnectionId = conn
    /\ isExecuting = FALSE
    /\ queryResults = NoResults
    /\ mutationStatus = "idle"
    /\ toasts = {}
    /\ invalidated = FALSE
    /\ run = IdleRun
    /\ request = NoMessage
    /\ response = NoMessage
    /\ sent = <<>>
    /\ served = <<>>

EditorAtRest == EditorAtRestOn(1)

InitUpdate ==
    /\ EditorAtRest
    /\ \E type \in ConnTypes :
          store = [file |-> StoredData(type), mem |-> EmptyData]
    /\ \E shape \in {"id", "noid"} : table \in Grids(shape)
    /\ updRequest = NoMessage
    /\ updResponse = NoMessage
    /\ issued = <<>>
    /\ handled = NoMessage
    /\ GridAtRest

NextUpdate ==
    \/ PostUpdate
    \/ UpdateEndpoint

SpecUpdate == InitUpdate /\ [][NextUpdate]_vars

\* ------------------------------------------------------ the result grid
\* Rows on one page of the grid.  The source shows 30; the model shows fewer
\* so that a result of MaxRows rows spans more than one page.
ROWS_PER_PAGE == 1

Min(a, b) == IF a < b THEN a ELSE b
Max(a, b) == IF a > b THEN a ELSE b

\* Math.ceil(queryResult.rows.length / ROWS_PER_PAGE)
TotalPages == (Len(resultRows) + ROWS_PER_PAGE - 1) \div ROWS_PER_PAGE
StartIndex == (currentPage - 1) * ROWS_PER_PAGE
EndIndex == Min(StartIndex + ROWS_PER_PAGE, Len(resultRows))
\* queryResult.rows.slice(startIndex, endIndex)
CurrentRows == SubSeq(resultRows, StartIndex + 1, EndIndex)

\* Numbers in template strings, and parseInt.
Digits == <<"0", "1", "2", "3", "4", "5", "6", "7", "8", "9">>

RECURSIVE IntToText(_)
IntToText(n) ==
    IF n < 10 THEN <<Digits[n + 1]>>
    ELSE IntToText(n \div 10) \o <<Digits[(n % 10) + 1]>>

IsDigit(c) == \E d \in 1..10 : Digits[d] = c
DigitValue(c) == (CHOOSE d \in 1..10 : Digits[d] = c) - 1

RECURSIVE ParseDigits(_, _, _)
ParseDigits(t, i, acc) ==
    IF i > Len(t) \/ ~IsDigit(t[i]) THEN acc
    ELSE ParseDigits(t, i + 1, acc * 10 + DigitValue(t[i]))

\* parseInt(rowIndexStr): the leading digits; NaN (NULL) without any.
ParseInt(t) ==
    IF t = <<>> \/ ~IsDigit(t[1]) THEN NULL ELSE ParseDigits(t, 1, 0)

\* The pending Map's key `${rowIndex}-${column}` and its decoding in
\* saveChanges: const [rowIndexStr, column] = cellKey.split('-').
CellKey(rowIndex, column) == IntToText(rowIndex) \o <<"-">> \o column
KeyParts(cellKey) == SplitFrom(cellKey, "-", 1, <<>>)
KeyRowIndex(cellKey) == ParseInt(KeyParts(cellKey)[1])
KeyColumn(cellKey) ==
    IF Len(KeyParts(cellKey)) >= 2 THEN KeyParts(cellKey)[2] ELSE <<>>

\* The character classes of the table-name pattern: \w and \s, and the
\* folding of case that the i flag asks for.
UpperLetters == <<"A", "B", "C", "D", "E", "F", "G", "H", "I", "J", "K", "L",
                  "M", "N", "O", "P", "Q", "R", "S", "T", "U", "V", "W", "X",
                  "Y", "Z">>
LowerLetters == <<"a", "b", "c", "d", "e", "f", "g", "h", "i", "j", "k", "l",
                  "m", "n", "o", "p", "q", "r", "s", "t", "u", "v", "w", "x",
                  "y", "z">>

ToLower(c) ==
    IF \E k \in 1..26 : UpperLetters[k] = c
    THEN LowerLetters[CHOOSE k \in 1..26 : UpperLetters[k] = c]
    ELSE c

IsLetter(c) == \E k \in 1..26 : LowerLetters[k] = ToLower(c)
IsWordChar(c) == IsLetter(c) \/ IsDigit(c) \/ c = "_"
IsSpace(c) == c \in {" ", "\t", "\n"}

\* (?:from|into|update)
Keywords == {<<"f", "r", "o", "m">>, <<"i", "n", "t", "o">>,
             <<"u", "p", "d", "a", "t", "e">>}

\* The keyword alternatives that match at position i of s, case folded.
KeywordsAt(s, i) ==
    {kw \in Keywords :
        /\ i + Len(kw) - 1 <= Len(s)
        /\ \A k \in 1..Len(kw) : ToLower(s[i + k - 1]) = kw[k]}

\* The end of the longest run of whitespace (of word characters) from j.
RECURSIVE SpaceEnd(_, _)
SpaceEnd(s, j) ==
    IF j <= Len(s) /\ IsSpace(s[j]) THEN SpaceEnd(s, j + 1) ELSE j

RECURSIVE WordEnd(_, _)
WordEnd(s, j) ==
    IF j <= Len(s) /\ IsWordChar(s[j]) THEN WordEnd(s, j + 1) ELSE j

\* No table: the match is undefined, which is falsy, as no captured word is.
NoTable == <<>>

\* The pattern (?:from|into|update)\s+(\w+) tried at position i: the
\* captured group, or NoTable when it does not match there.
MatchAt(s, i) ==
    IF KeywordsAt(s, i) = {} THEN NoTable
    ELSE LET kw == CHOOSE k \in KeywordsAt(s, i) : TRUE
             j == i + Len(kw)
             w == SpaceEnd(s, j)
             e == WordEnd(s, w)
         IN IF w > j /\ e > w THEN SubSeq(s, w, e - 1) ELSE NoTable

\* statement.match(...)?.[1]: the leftmost position at which the pattern
\* matches decides.
RECURSIVE InferFrom(_, _)
InferFrom(s, i) ==
    IF i > Len(s) THEN NoTable
    ELSE IF MatchAt(s, i) # NoTable THEN MatchAt(s, i)
    ELSE InferFrom(s, i + 1)

InferTable(s) == InferFrom(s, 1)

\* const tableName = statement.match(/(?:from|into|update)\s+(\w+)/i)?.[1]
TableName == InferTable(statement)

\* The statements behind the result shown: one whose table the pattern
\* finds, and one in which it finds none.
StatementWithTable == <<"f", "r", "o", "m", " ", "t">>
StatementWithoutTable == <<"x">>
GridStatements == {StatementWithTable, StatementWithoutTable}

\* What the user types into a cell: the name every row starts with, and
\* another one.
EditValues == {"a", "b"}

\* queryResult.columns
ResultColumns ==
    IF resultRows = <<>> THEN {} ELSE ColumnsOf(resultRows[1])

\* new Map()
NewMap_Pending == pendingChanges
NewMap == <<>>

\* Map.prototype.set on the pending Map: an existing key keeps its place.
MapHas(m, key) == \E k \in 1..Len(m) : m[k].key = key
MapSet_MoveToEnd(m, key, value) ==
    Append(SelectSeq(m, LAMBDA e : e.key # key),
           [key |-> key, value |-> value])
MapSet(m, key, value) ==
    IF MapHas(m, key)
    THEN [k \in 1..Len(m) |->
            IF m[k].key = key THEN [m[k] EXCEPT !.value = value] ELSE m[k]]
    ELSE Append(m, [key |-> key, value |-> value])
MapGet(m, key) == m[CHOOSE k \in 1..Len(m) : m[k].key = key].value

\* The edits the model follows in one behaviour.
MaxEdits == 3

\* The record kept of the edits committed since the pending Map was last
\* emptied, in order: the key, the value committed, the row that was
\* displayed at the key's position, and whether handleCellBlur wrote the
\* value to the pending Map.
NoRow == <<>>
RecordEdit(es, key, value, row, written) ==
    Append(es, [key |-> key, committed |-> value, row |-> row,
                written |-> written])

\* The last edit committed on a key, and the last one written for it.
LastOf(es, key, writtenOnly) ==
    LET ks == {k \in 1..Len(es) :
                  es[k].key = key /\ (writtenOnly => es[k].written)}
    IN IF ks = {} THEN 0 ELSE CHOOSE k \in ks : \A j \in ks : j <= k
LastCommitted(es, key) == es[LastOf(es, key, FALSE)].committed
EditRow(es, key) ==
    IF LastOf(es, key, TRUE) = 0 THEN NoRow
    ELSE es[LastOf(es, key, TRUE)].row

\* The input of a cell is rendered: isEditing && tableName, on a row of the
\* page.
InputShown ==
    /\ editingCell # NoCell
    /\ TableName # NoTable
    /\ editingCell.rowIndex < Len(CurrentRows)

\* The Save and Discard buttons are rendered.
SaveShown == Len(pendingChanges) > 0 /\ TableName # NoTable

\* What of the state the grid's handlers leave alone.
editorRest == <<editor, content, selectedText, monacoSelection, connectionId,
                activeConnectionId, isExecuting, queryResults,
                mutationStatus, run, request, response, sent, served>>
serverVars == <<store, table, updResponse, issued, handled>>
fixedVars == <<tabDatabase, lastQueryConn, inferred, otherVars>>

\* A click on a cell: tableName && handleCellClick(index, column,
\* row[column]).  The cell in edit mode is kept with a note of whether the
\* user has typed into its input, for the record of the edits.  A click elsewhere while a cell is being edited is first a
\* blur of its input.
HandleCellClick ==
    /\ editingCell = NoCell
    /\ updateStatus \in {"idle", "pending"}
    /\ Len(edits) < MaxEdits
    /\ TableName # NoTable
    /\ \E index \in 0..(Len(CurrentRows) - 1), column \in ResultColumns :
          /\ editingCell' = [rowIndex |-> index, column |-> column,
                             typed |-> FALSE]
          /\ editingValue' = Get(CurrentRows[index + 1], column)
    /\ UNCHANGED <<editorRest, toasts, invalidated, serverVars, updRequest,
                   statement, resultRows, currentPage, pendingChanges,
                   updateStatus, fixedVars, edits,
                   collected>>

\* Typing in the input: setEditingValue(e.target.value).
SetEditingValue ==
    /\ InputShown
    /\ \E v \in EditValues : editingValue' = v
    /\ editingCell' = [editingCell EXCEPT !.typed = TRUE]
    /\ UNCHANGED <<editorRest, toasts, invalidated, serverVars, updRequest,
                   statement, resultRows, currentPage,
                   pendingChanges, updateStatus, fixedVars,
                   edits, collected>>

\* handleCellBlur, on blur of the input or Enter: the value is written to
\* the pending Map when it differs from the value of the row displayed.
HandleCellBlur ==
    /\ InputShown
    /\ LET cellKey == CellKey(editingCell.rowIndex, editingCell.column)
           row == CurrentRows[editingCell.rowIndex + 1]
           originalValue == Get(row, editingCell.column)
           changed == editingValue # originalValue
       IN /\ pendingChanges' =
                IF changed THEN MapSet(pendingChanges, cellKey, editingValue)
                ELSE pendingChanges
          /\ edits' =
                IF editingCell.typed
                THEN RecordEdit(edits, cellKey, editingValue, row, changed)
                ELSE edits
    /\ editingCell' = NoCell
    /\ editingValue' = ""
    /\ UNCHANGED <<editorRest, toasts, invalidated, serverVars, updRequest,
                   statement, resultRows, currentPage, updateStatus,
                   fixedVars, collected>>

\* Escape in the input.
CancelEdit ==
    /\ InputShown
    /\ editingCell' = NoCell
    /\ editingValue' = ""
    /\ UNCHANGED <<editorRest, toasts, invalidated, serverVars, updRequest,
                   statement, resultRows, currentPage, pendingChanges,
                   updateStatus, fixedVars, edits,
                   collected>>

\* The Previous and Next buttons of the pagination bar.  While a save is in
\* flight, and after it has settled, the model follows the cells only.
PreviousPage ==
    /\ resultRows # <<>>
    /\ editingCell = NoCell
    /\ updateStatus = "idle"
    /\ currentPage # 1
    /\ currentPage' = Max(1, currentPage - 1)
    /\ UNCHANGED <<editorRest, toasts, invalidated, serverVars, updRequest,
                   statement, resultRows, editingCell, editingValue,
                   pendingChanges, updateStatus, fixedVars,
                   edits, collected>>

NextPage ==
    /\ resultRows # <<>>
    /\ editingCell = NoCell
    /\ updateStatus = "idle"
    /\ currentPage # TotalPages
    /\ currentPage' = Min(TotalPages, currentPage + 1)
    /\ UNCHANGED <<editorRest, toasts, invalidated, serverVars, updRequest,
                   statement, resultRows, editingCell, editingValue,
                   pendingChanges, updateStatus, fixedVars,
                   edits, collected>>

\* discardChanges
DiscardChanges ==
    /\ editingCell = NoCell
    /\ updateStatus = "idle"
    /\ SaveShown
    /\ pendingChanges' = NewMap
    /\ edits' = <<>>
    /\ editingCell' = NoCell
    /\ editingValue' = ""
    /\ UNCHANGED <<editorRest, toasts, invalidated, serverVars, updRequest,
                   statement, resultRows, currentPage, updateStatus,
                   fixedVars, collected>>

\* The changes saveChanges builds from the entries of the pending Map.
PendingToChanges(pending) ==
    [k \in 1..Len(pending) |->
        [rowIndex |-> KeyRowIndex(pending[k].key),
         column |-> KeyColumn(pending[k].key),
         newValue |-> pending[k].value]]

\* originalRow[column] in saveChanges throws when the page shown has no row
\* at an entry's position.
SaveThrows ==
    \E k \in 1..Len(pendingChanges) :
        KeyRowIndex(pendingChanges[k].key) \notin 0..(Len(CurrentRows) - 1)

\* lastQuery?.connectionId || activeConnectionId
QueryConnectionId ==
    IF lastQueryConn # 0 THEN lastQueryConn ELSE activeConnectionId

\* apiRequest resolves with the response when its status is ok and rejects
\* otherwise.
ApiRequestResolves(resp) == resp.ok

\* The pending entries with the rows recorded for them.
Collect(pending, es) ==
    [k \in 1..Len(pending) |->
        [key |-> pending[k].key, value |-> pending[k].value,
         row |-> EditRow(es, pending[k].key)]]

\* saveChanges, from the Save button (rendered with pending edits and a
\* table name, disabled while the mutation is pending), up to the request
\* of updateMutation.  One save is followed from start to end.
SaveChanges ==
    /\ editingCell = NoCell
    /\ updateStatus = "idle"
    /\ SaveShown
    /\ IF Len(pendingChanges) = 0 \/ TableName = NoTable \/ SaveThrows
       THEN UNCHANGED <<updRequest, updateStatus, collected, toasts>>
       ELSE IF QueryConnectionId = 0 \/ TableName = NoTable
       THEN /\ updateStatus' = "error"
            /\ toasts' = toasts \cup {"Error"}
            /\ UNCHANGED <<updRequest, collected>>
       ELSE /\ updRequest' =
                  [connId |-> QueryConnectionId,
                   tableName |-> TableName,
                   changes |-> PendingToChanges(pendingChanges),
                   originalData |-> CurrentRows,
                   database |-> tabDatabase,
                   schema |-> ""]
            /\ updateStatus' = "pending"
            /\ collected' = Collect(pendingChanges, edits)
            /\ UNCHANGED toasts
    /\ UNCHANGED <<editorRest, invalidated, serverVars, statement,
                   resultRows, currentPage, editingCell, editingValue,
                   pendingChanges, fixedVars, edits>>

\* The end of updateMutation: onSuccess clears the pending Map and
\* invalidates the query history; onError shows the error.
UpdateSettled ==
    /\ updateStatus = "pending"
    /\ updResponse # NoMessage
    /\ IF ApiRequestResolves(updResponse)
       THEN /\ toasts' = toasts \cup {"Success"}
            /\ pendingChanges' = NewMap
            /\ edits' = <<>>
            /\ invalidated' = TRUE
            /\ updateStatus' = "success"
       ELSE /\ toasts' = toasts \cup {"Error"}
            /\ updateStatus' = "error"
            /\ UNCHANGED <<pendingChanges, edits, invalidated>>
    /\ updResponse' = NoMessage
    /\ UNCHANGED <<editorRest, store, table, issued, handled, updRequest,
                   statement, resultRows, currentPage, editingCell,
                   editingValue, fixedVars, collected>>

\* Another result arrives in the store: QueryResults renders the same
\* SingleQueryResult with the new queryResult and statement, and the
\* component keeps its state.
NewResult ==
    /\ editingCell = NoCell
    /\ updateStatus = "idle"
    /\ \E st \in GridStatements \ {statement} : statement' = st
    /\ resultRows' = table
    /\ UNCHANGED <<editorRest, toasts, invalidated, serverVars, updRequest,
                   currentPage, editingCell, editingValue, pendingChanges,
                   updateStatus, fixedVars, edits,
                   collected>>

\* The tables whose rows the grid shows: MaxRows rows, not all alike.
GridTables(shape) ==
    {g \in Grids(shape) :
        Len(g) = MaxRows /\ \E i, j \in 1..Len(g) : g[i] # g[j]}

\* The connection of the last history entry and the connection selected in
\* the sidebar, 0 for none: either, or neither, is known to the grid.
ConnectionIds ==
    {[last |-> 1, active |-> 0], [last |-> 0, active |-> 1],
     [last |-> 0, active |-> 0]}

\* The grid showing the rows of the table, nothing edited yet.
InitGrid ==
    /\ OthersAtRest
    /\ \E conns \in ConnectionIds :
          /\ EditorAtRestOn(conns.active)
          /\ lastQueryConn = conns.last
    /\ \E type \in ConnTypes :
          store = [file |-> StoredData(type), mem |-> EmptyData]
    /\ \E shape \in {"id", "noid"} : table \in GridTables(shape)
    /\ resultRows = table
    /\ statement \in GridStatements
    /\ currentPage = 1
    /\ editingCell = NoCell
    /\ editingValue = ""
    /\ pendingChanges = <<>>
    /\ updateStatus = "idle"
    /\ tabDatabase \in {"", TabDatabase}
    /\ inferred = NotInferred
    /\ edits = <<>>
    /\ collected = <<>>
    /\ updRequest = NoMessage
    /\ updResponse = NoMessage
    /\ issued = <<>>
    /\ handled = NoMessage

NextGrid ==
    \/ HandleCellClick
    \/ SetEditingValue
    \/ HandleCellBlur
    \/ CancelEdit
    \/ PreviousPage
    \/ NextPage
    \/ DiscardChanges
    \/ SaveChanges
    \/ UpdateEndpoint
    \/ UpdateSettled
    \/ NewResult

SpecGrid == InitGrid /\ [][NextGrid]_vars

\* ---------------------------------------------- table-name inference
\* The statement texts the inference is tried on: the two statements the
\* documentation gives, one that selects a column named valid_from, and
\* every concatenation of at most MaxPieces pieces
\* (keywords in several cases, a keyword's letters at the end of a longer
\* word, blanks, names, punctuation).
MaxPieces == 4

ExampleCustomers ==
    <<"S", "E", "L", "E", "C", "T", " ", "*", " ", "F", "R", "O", "M", " ",
      "c", "u", "s", "t", "o", "m", "e", "r", "s", " ", "W", "H", "E", "R",
      "E", " ", "i", "d", "=", "1">>
ExampleSelectOne ==
    <<"S", "E", "L", "E", "C", "T", " ", "1">>
ExampleValidFrom ==
    <<"S", "E", "L", "E", "C", "T", " ", "v", "a", "l", "i", "d", "_", "f",
      "r", "o", "m", " ", "F", "R", "O", "M", " ", "p", "r", "i", "c", "e",
      "s">>

InferPieces ==
    {<<"f", "r", "o", "m">>, <<"F", "R", "O", "M">>, <<"I", "n", "t", "o">>,
     <<"u", "p", "d", "a", "t", "e">>, <<" ">>, <<"t">>, <<"x", "_">>,
     <<"(">>, <<".">>}

RECURSIVE PieceTexts(_)
PieceTexts(n) ==
    IF n = 0 THEN {<<>>}
    ELSE LET shorter == PieceTexts(n - 1)
         IN shorter \cup {t \o p : t \in shorter, p \in InferPieces}

InferInputs ==
    PieceTexts(MaxPieces)
        \cup {ExampleCustomers, ExampleSelectOne, ExampleValidFrom}

\* A render of SingleQueryResult computes tableName from its statement.
RenderTableName ==
    /\ ~inferred.done
    /\ inferred' = [done |-> TRUE, table |-> InferTable(statement)]
    /\ UNCHANGED <<editorVars, store, updateVars, statement, resultRows,
                   currentPage, editingCell, editingValue, pendingChanges,
                   updateStatus, tabDatabase, lastQueryConn, edits,
                   collected, otherVars>>

\* A result with no rows whose statement is any of the texts.
InitInfer ==
    /\ OthersAtRest
    /\ EditorAtRest
    /\ store = [file |-> StoredData("mysql"), mem |-> EmptyData]
    /\ table = <<>>
    /\ updRequest = NoMessage
    /\ updResponse = NoMessage
    /\ issued = <<>>
    /\ handled = NoMessage
    /\ statement \in InferInputs
    /\ resultRows = <<>>
    /\ currentPage = 1
    /\ editingCell = NoCell
    /\ editingValue = ""
    /\ pendingChanges = <<>>
    /\ updateStatus = "idle"
    /\ tabDatabase = ""
    /\ lastQueryConn = 0
    /\ inferred = NotInferred
    /\ edits = <<>>
    /\ collected = <<>>

NextInfer == RenderTableName

SpecInfer == InitInfer /\ [][NextInfer]_vars

\* ---------------------------------------------------------------- claims
\* The history as it is read back from the storage (getQueryHistory loads
\* the file).
Hist == store.file.queryHistories

\* The text of the user's selection in the editor in use.
SelectionText == IF editor = "monaco" THEN monacoSelection ELSE selectedText

\* A non-blank buffer with no separator or with exactly one non-empty
\* fragment.
SingleFragment(buf) ==
    /\ Trim(buf) # <<>>
    /\ ~Includes(buf, ";") \/ Len(SplitStatements(buf)) = 1

\* C1: a buffer submitted without a selection whose split yields n >= 2
\* fragments goes down the multi-statement path; the requests sent are the
\* fragments in order, one each, request i+1 only after the response to
\* request i; when all n succeed the stored envelope has n entries, entry i
\* with the i-th fragment, index i and the result returned for request i.
C1_SequentialFanOut ==
    (run.phase # "idle" /\ ~HasSelection /\ Len(SplitStatements(content)) >= 2)
    => LET frags == SplitStatements(content)
           n == Len(frags)
       IN
       /\ run.path = "multi"
       /\ Len(sent) <= n
       /\ \A k \in 1..Len(sent) : sent[k].query = frags[k]
       /\ Len(sent) <= Len(run.results) + 1
       /\ request # NoMessage => Len(served) = Len(sent) - 1
       /\ (run.phase = "done" /\ run.failedAt = 0) =>
             /\ Len(sent) = n
             /\ Len(served) = n
             /\ "multiStatementResults" \in DOMAIN queryResults
             /\ Len(queryResults.multiStatementResults) = n
             /\ \A k \in 1..n :
                   /\ queryResults.multiStatementResults[k].statement = frags[k]
                   /\ queryResults.multiStatementResults[k].index = k
                   /\ queryResults.multiStatementResults[k].result
                         = served[k].result
                   /\ served[k].query = frags[k]

\* C1 witness: a three-statement buffer has run to the end and its envelope
\* is stored.
C1_Witness ==
    /\ run.phase = "done"
    /\ run.path = "multi"
    /\ ~HasSelection
    /\ run.failedAt = 0
    /\ Len(SplitStatements(content)) = 3
    /\ "multiStatementResults" \in DOMAIN queryResults
    /\ Len(queryResults.multiStatementResults) = 3

\* C2: when the request for the k-th statement of a multi-statement run
\* fails, no later statement is sent, the failing one is not sent again, and
\* no envelope is stored: queryResults keeps the value it had before.
C2_StopOnFirstFailure ==
    (run.path = "multi" /\ run.failedAt # 0)
    => /\ Len(sent) = run.failedAt
       /\ request = NoMessage
       /\ run.phase = "done"
       /\ ~run.stored
       /\ queryResults = NoResults

\* C2 witness: the second of three statements has failed after the first
\* succeeded.
C2_Witness ==
    /\ run.path = "multi"
    /\ run.failedAt = 2
    /\ Len(run.statements) = 3
    /\ Len(run.results) = 1
    /\ run.phase = "done"

\* C3: a run in which the database failed a statement ends in a failure
\* outcome the caller can observe: a rejected operation or an error state.
C3_FailureObservable ==
    (/\ run.phase = "done"
     /\ run.failedAt # 0
     /\ served # <<>>
     /\ ~served[Len(served)].ok)
    => (run.outcome = "rejected" \/ mutationStatus = "error")

\* C4: the statements of one multi-statement submission run on one session:
\* the session state statement i leaves is the state statement i+1 finds.
C4_SingleSession ==
    run.path = "multi"
    => \A k \in 2..Len(served) :
          served[k].sessionBefore = served[k - 1].sessionAfter

C7_SplitterWellFormed ==
    (run.phase # "idle" /\ run.split)
    => /\ Len(run.statements) >= 1
       /\ \A k \in 1..Len(run.statements) :
             /\ run.statements[k] # <<>>
             /\ Trim(run.statements[k]) = run.statements[k]
             /\ ~Includes(run.statements[k], ";")

\* C8: every statement the query endpoint has run, succeeded or failed, has
\* exactly one history entry, in order and with the text that was sent.
C8_OneEntryPerStatement ==
    /\ Len(Hist) = Len(served)
    /\ \A k \in 1..Len(Hist) : Hist[k].query = served[k].query

\* C9: the history entry of a failed statement, read back from the storage,
\* has rowCount 0.
C9_FailedRowCountZero ==
    (/\ response # NoMessage
     /\ ~response.ok
     /\ response.body = "Query execution failed"
     /\ served # <<>>
     /\ ~served[Len(served)].ok)
    => /\ Hist # <<>>
       /\ Hist[Len(Hist)].query = served[Len(served)].query
       /\ Hist[Len(Hist)].rowCount = 0


\* C10: for a change on a row whose snapshot carries an id field, the
\* UPDATE the endpoint issues, on the MySQL and the PostgreSQL path alike,
\* has as its WHERE clause the single equality id = <snapshot id>.
C10_WhereById ==
    \A j \in 1..Len(issued) :
        LET change == handled.request.changes[issued[j].change]
            snapshot == handled.request.originalData[change.rowIndex + 1]
        IN Get(snapshot, IdCol) # Undefined =>
              BoundWhere(issued[j].stmt)
                 = <<[col |-> IdCol, val |-> Get(snapshot, IdCol)]>>

\* C10 witness: an UPDATE has been issued for a change of the name of a row
\* with an id, on either kind of connection.
C10_Witness ==
    /\ issued # <<>>
    /\ issued[Len(issued)].ok
    /\ issued[Len(issued)].stmt.setCol = NameCol
    /\ HasId(handled.request.originalData[
           handled.request.changes[issued[Len(issued)].change].rowIndex + 1])
    /\ issued[Len(issued)].stmt.where = WhereById

\* C11: for every pending edit saved on a row whose snapshot has no id
\* field, the UPDATE issued for it has as its WHERE clause the conjunction of
\* column = snapshot value over every column of the snapshot, in the
\* snapshot's order, each predicate bound to the placeholder at its own
\* position after the new value, with as many bound values as placeholders;
\* its SET clause assigns the edit's value to the edited column only.
C11_WhereByAllColumns ==
    \A j \in 1..Len(issued) :
        LET stmt == issued[j].stmt
            edit == collected[issued[j].change]
            change == handled.request.changes[issued[j].change]
            snapshot == handled.request.originalData[change.rowIndex + 1]
        IN Get(snapshot, IdCol) = Undefined =>
              /\ BoundWhere(stmt) = snapshot
              /\ \A k \in 1..Len(stmt.where) : stmt.where[k].ph = k + 1
              /\ Len(stmt.params) = Len(stmt.where) + 1
              /\ stmt.setCol = KeyColumn(edit.key)
              /\ stmt.params[1] = edit.value

\* C11 witness: the save of an edit of the name of a row without an id has
\* been answered, and its UPDATE compared both columns of the row.
C11_Witness ==
    /\ updateStatus = "success"
    /\ Len(issued) = 1
    /\ issued[1].ok
    /\ issued[1].stmt.setCol = NameCol
    /\ Get(handled.request.originalData[1], IdCol) = Undefined
    /\ Len(issued[1].stmt.where) = 2

\* C12: a save whose UPDATEs have all been carried out has issued exactly one
\* UPDATE per edited row: as many statements as there are distinct rows
\* among its pending edits (two edited cells of one row, one UPDATE).
C12_OneUpdatePerRow ==
    (handled # NoMessage /\ handled.closed /\ handled.database # "") =>
        Len(issued) =
            Cardinality({handled.request.changes[k].rowIndex :
                            k \in 1..Len(handled.request.changes)})

\* C13: on a MySQL and on a PostgreSQL connection alike, when the save
\* request names a target database, the session on which the UPDATEs of the
\* save are executed is opened on that database.
C13_SuppliedDatabase ==
    (handled # NoMessage /\ issued # <<>> /\ handled.request.database # "") =>
        handled.database = handled.request.database

\* The rows after the statements of a log that succeeded, in order.
RECURSIVE AppliedTo(_, _, _)
AppliedTo(rows, log, j) ==
    IF j > Len(log) THEN rows
    ELSE AppliedTo(
            IF log[j].ok
            THEN [k \in 1..Len(rows) |->
                    IF Matches(rows[k], log[j].stmt)
                    THEN SetColumn(rows[k], log[j].stmt.setCol,
                                   log[j].stmt.params[1])
                    ELSE rows[k]]
            ELSE rows,
            log, j + 1)

FailedUpdate == issued # <<>> /\ ~issued[Len(issued)].ok

\* C14: when the k-th UPDATE of a save fails, the table holds the effects
\* of UPDATEs 1..k-1 (nothing is rolled back), the failing UPDATE is the
\* last one attempted, the endpoint answers with an error that the client
\* reports as a failed save, and the step that reports it leaves the pending
\* edits as they are.
C14_PartialFailure ==
    /\ [](FailedUpdate =>
            /\ table = AppliedTo(resultRows, issued, 1)
            /\ \A j \in 1..Len(issued) : ~issued[j].ok => j = Len(issued)
            /\ issued[Len(issued)].change = Len(issued)
            /\ updResponse # NoMessage =>
                  ~updResponse.ok /\ updResponse.status = 500
            /\ updResponse = NoMessage =>
                  updateStatus = "error" /\ "Error" \in toasts)
    /\ [][(FailedUpdate /\ updateStatus = "pending"
              /\ updateStatus' # "pending") =>
             (updateStatus' = "error" /\ pendingChanges' = pendingChanges)]_vars

\* C14 witness: the second UPDATE of a save failed after the first one had
\* changed the table, the save has been reported as failed, and both edits
\* are still pending.
C14_Witness ==
    /\ Len(issued) = 2
    /\ issued[1].ok
    /\ ~issued[2].ok
    /\ table # resultRows
    /\ updateStatus = "error"
    /\ Len(pendingChanges) = 2

\* The reading of the statement text by keywords: the first place at which
\* FROM, INTO or UPDATE stands as a word of its own (in any case, not the
\* tail of a longer word) and is followed by whitespace, and the identifier
\* after that whitespace.
KeywordAt(s, i) ==
    /\ KeywordsAt(s, i) # {}
    /\ i = 1 \/ ~IsWordChar(s[i - 1])
    /\ LET j == i + Len(CHOOSE kw \in KeywordsAt(s, i) : TRUE)
       IN SpaceEnd(s, j) > j

RECURSIVE IdentifierAfterKeyword(_, _)
IdentifierAfterKeyword(s, i) ==
    IF i > Len(s) THEN NoTable
    ELSE IF KeywordAt(s, i)
    THEN LET j == i + Len(CHOOSE kw \in KeywordsAt(s, i) : TRUE)
             w == SpaceEnd(s, j)
         IN SubSeq(s, w, WordEnd(s, w) - 1)
    ELSE IdentifierAfterKeyword(s, i + 1)

\* C15: the table name inferred from a statement text is the identifier
\* that follows the first FROM, INTO or UPDATE keyword (in any case,
\* followed by whitespace), and none when the text has no such keyword:
\* customers for "SELECT * FROM customers WHERE id=1", none for "SELECT 1".
C15_IdentifierAfterKeyword ==
    inferred.done => inferred.table = IdentifierAfterKeyword(statement, 1)

\* C16: in every state of the result grid, when no table name is inferred
\* from the statement, the pending Map is empty, no cell is in edit mode and
\* no update request of the grid is on its way.
C16_NoTableNoEdits ==
    TableName = NoTable =>
        /\ pendingChanges = <<>>
        /\ editingCell = NoCell
        /\ updRequest = NoMessage

\* C17: the row from which an UPDATE of a save builds its WHERE clause is
\* the row that was displayed at the edit's position when the edit was
\* written to the pending Map, whatever pages were shown in between.
C17_RowOfTheEdit ==
    \A j \in 1..Len(issued) :
        LET change == handled.request.changes[issued[j].change]
        IN handled.request.originalData[change.rowIndex + 1]
              = collected[issued[j].change].row

\* C18: the pending Map holds at most one entry per key, and the value it
\* holds for a key is the value of the last edit committed on that cell,
\* also when that value is the one the cell had originally.
C18_LastEditWins ==
    /\ \A i, j \in 1..Len(pendingChanges) :
          pendingChanges[i].key = pendingChanges[j].key => i = j
    /\ \A k \in 1..Len(pendingChanges) :
          LastOf(edits, pendingChanges[k].key, FALSE) # 0 =>
             pendingChanges[k].value
                = LastCommitted(edits, pendingChanges[k].key)

\* The pending entries that a save did not collect.
WasCollected(e) ==
    \E k \in 1..Len(collected) :
        collected[k].key = e.key /\ collected[k].value = e.value
NotCollected(pending) == SelectSeq(pending, LAMBDA e : ~WasCollected(e))

\* C19: the step that completes a save successfully removes from the
\* pending Map exactly the edits the save collected when it started; an edit
\* committed while the save was in flight is still pending after it.
C19_CollectThenClear ==
    [][(updateStatus = "pending" /\ updateStatus' = "success") =>
          pendingChanges' = NotCollected(pendingChanges)]_vars

\* C20: the step that completes a save successfully leaves the pending Map
\* empty and invalidates the cached query history; and a request is sent
\* only by a save that found pending edits and an inferred table name, and
\* carries those edits.
C20_SaveOutcome ==
    [][/\ (updateStatus = "pending" /\ updateStatus' = "success") =>
             (pendingChanges' = <<>> /\ invalidated')
       /\ (updRequest = NoMessage /\ updRequest' # NoMessage) =>
             /\ pendingChanges # <<>>
             /\ TableName # NoTable
             /\ updRequest'.tableName = TableName
             /\ updRequest'.changes = PendingToChanges(pendingChanges)]_vars

\* C20 witness: a save of one edit has succeeded; the pending Map is empty,
\* the success is shown and the query history has been invalidated.
C20_Witness ==
    /\ updateStatus = "success"
    /\ Len(collected) = 1
    /\ pendingChanges = <<>>
    /\ "Success" \in toasts
    /\ invalidated

\* The first edit written to the pending Map for a key, 0 when there is none.
FirstWritten(es, key) ==
    LET ks == {k \in 1..Len(es) : es[k].key = key /\ es[k].written}
    IN IF ks = {} THEN 0 ELSE CHOOSE k \in ks : \A j \in ks : k <= j

\* C21: the pending Map keeps its entries in the order in which their keys
\* were first written, a later edit of a pending cell leaving its entry in
\* place; and the UPDATEs of a save are issued one after the other in the
\* order of the entries the save collected, each one after the one before
\* it has completed.
C21_InsertionOrder ==
    /\ \A i, j \in 1..Len(pendingChanges) :
          i < j =>
             /\ FirstWritten(edits, pendingChanges[i].key) # 0
             /\ FirstWritten(edits, pendingChanges[i].key)
                   < FirstWritten(edits, pendingChanges[j].key)
    /\ \A j \in 1..Len(issued) :
          /\ issued[j].change = j
          /\ issued[j].stmt.setCol = KeyColumn(collected[j].key)
          /\ issued[j].stmt.params[1] = collected[j].value
          /\ j < Len(issued) => issued[j].ok

\* C21 witness: a cell was edited, then another, then the first one again;
\* the save issued the UPDATE of the first cell first, with its later value.
C21_Witness ==
    /\ Len(edits) = 3
    /\ edits[1].key = edits[3].key
    /\ edits[1].key # edits[2].key
    /\ edits[1].committed # edits[3].committed
    /\ \A k \in 1..3 : edits[k].written
    /\ Len(issued) = 2
    /\ issued[1].stmt.setCol = KeyColumn(edits[1].key)
    /\ issued[1].stmt.params[1] = edits[3].committed
    /\ issued[2].ok

\* A result object carries the multiStatementResults property.
IsMultiEnvelope(result) == "multiStatementResults" \in DOMAIN result

\* C22: a stored result is of one kind.  The result the single-statement
\* path stores has no multiStatementResults; the result the multi-statement
\* path stores has at least two sub-results, no rows, rowCount 0 and
\* executionTime 0, and none of its sub-results has multiStatementResults
\* of its own.
C22_EnvelopeKind ==
    /\ (run.phase = "done" /\ run.stored /\ run.path = "single") =>
          ~IsMultiEnvelope(queryResults)
    /\ (run.phase = "done" /\ run.stored /\ run.path = "multi") =>
          IsMultiEnvelope(queryResults)
    /\ (queryResults # NoResults /\ IsMultiEnvelope(queryResults)) =>
          /\ Len(queryResults.multiStatementResults) >= 2
          /\ queryResults.rows = <<>>
          /\ queryResults.rowCount = 0
          /\ queryResults.executionTime = 0
          /\ \A k \in 1..Len(queryResults.multiStatementResults) :
                ~IsMultiEnvelope(queryResults.multiStatementResults[k].result)

\* C22 witness: a multi-statement run has stored its envelope over the
\* results of its two statements, one of which returned rows.
C22_Witness ==
    /\ run.phase = "done"
    /\ run.path = "multi"
    /\ run.stored
    /\ IsMultiEnvelope(queryResults)
    /\ Len(queryResults.multiStatementResults) = 2
    /\ \E k \in 1..2 :
          queryResults.multiStatementResults[k].result.rows # <<>>

\* C23: after a save of two pending edits on two different columns of one
\* row has succeeded, the row having no id field and its original values
\* matching exactly one row of the table, that row of the table holds both
\* new values.
C23_BothEditsApplied ==
    (/\ updateStatus = "success"
     /\ Len(issued) = 2
     /\ issued[1].ok /\ issued[2].ok
     /\ handled.request.changes[1].rowIndex
           = handled.request.changes[2].rowIndex
     /\ handled.request.changes[1].column # handled.request.changes[2].column
     /\ LET snapshot == handled.request.originalData[
                            handled.request.changes[1].rowIndex + 1]
        IN /\ Get(snapshot, IdCol) = Undefined
           /\ Cardinality({k \in 1..Len(resultRows) :
                              resultRows[k] = snapshot}) = 1)
    => \E k \in 1..Len(table) :
          /\ Get(table[k], handled.request.changes[1].column)
                = handled.request.changes[1].newValue
          /\ Get(table[k], handled.request.changes[2].column)
                = handled.request.changes[2].newValue

\* C26: every database session the query endpoint or the update endpoint
\* has opened is closed by the time the endpoint has sent its response:
\* every statement served, succeeded or failed, left its session closed, and
\* so did the update request handled.
C26_SessionsClosed ==
    /\ \A k \in 1..Len(served) : served[k].closed
    /\ handled # NoMessage => handled.closed

\* C30: a statement that executed successfully is answered with its own
\* success result, whatever happens to the history append after it; the step
\* adds at most one history entry, and none that records the statement with
\* the row count of a failure while the result has rows.
C30_SuccessAnswered ==
    [][(/\ served' # served
        /\ served'[Len(served')].ok)
       => /\ response'.ok
          /\ response'.body = served'[Len(served')].result
          /\ Len(Hist') <= Len(Hist) + 1
          /\ \A k \in (Len(Hist) + 1)..Len(Hist') :
                Hist'[k].rowCount
                   = OrNull(served'[Len(served')].result.rowCount)]_vars

\* ------------------------------------------------- the keys of the cells
\* Column names a result can carry: the endpoint quotes the column of an
\* UPDATE, so a name may hold any character, '-' included.
KeyColumnNames ==
    {NameCol, <<"a", "_", "b">>, <<"a", "-", "b">>, <<"a", "-">>,
     <<"-", "a">>, <<"a", "-", "b", "-", "c">>}

\* A table of two rows whose first column has the name given.
KeyTable(column) ==
    <<<<[col |-> column, val |-> "a"], [col |-> CityCol, val |-> "x"]>>,
      <<[col |-> column, val |-> "a"], [col |-> CityCol, val |-> "y"]>>>>

\* The grid showing such a table, nothing edited yet.
InitKey ==
    /\ OthersAtRest
    /\ EditorAtRestOn(0)
    /\ lastQueryConn = 1
    /\ store = [file |-> StoredData("mysql"), mem |-> EmptyData]
    /\ \E column \in KeyColumnNames : table = KeyTable(column)
    /\ resultRows = table
    /\ statement \in GridStatements
    /\ currentPage = 1
    /\ editingCell = NoCell
    /\ editingValue = ""
    /\ pendingChanges = <<>>
    /\ updateStatus = "idle"
    /\ tabDatabase = ""
    /\ inferred = NotInferred
    /\ edits = <<>>
    /\ collected = <<>>
    /\ updRequest = NoMessage
    /\ updResponse = NoMessage
    /\ issued = <<>>
    /\ handled = NoMessage

SpecKey == InitKey /\ [][NextGrid]_vars

\* C29: the key of a pending edit encodes the position of the row and the
\* name of the column faithfully: whenever the blur of a cell's input writes
\* an entry to the pending Map, decoding the key of that entry as saveChanges
\* does gives back the position of the row and the whole name of the column,
\* for every column name, names holding '-' included.
C29_KeyRoundTrip ==
    [][(/\ InputShown
        /\ editingCell' = NoCell
        /\ pendingChanges' # pendingChanges)
       => \E k \in 1..Len(pendingChanges') :
             /\ pendingChanges'[k].key
                   = CellKey(editingCell.rowIndex, editingCell.column)
             /\ KeyRowIndex(pendingChanges'[k].key) = editingCell.rowIndex
             /\ KeyColumn(pendingChanges'[k].key) = editingCell.column]_vars

\* -------------------------------------------------- paging over results
\* The rows a later run can put on display: any result of up to
\* MaxPageRows rows, or none.
MaxPageRows == 3

PageResults ==
    UNION {[1..n -> RowPool("id")] \cup [1..n -> RowPool("noid")] :
              n \in 0..MaxPageRows}

\* setQueryResults(data) after a later run: QueryResults renders the same
\* SingleQueryResult with the new queryResult, and the component keeps its
\* state, the current page included.
ReplaceResult ==
    /\ editingCell = NoCell
    /\ updateStatus = "idle"
    /\ \E result \in PageResults, st \in GridStatements :
          /\ result # resultRows
          /\ resultRows' = result
          /\ statement' = st
    /\ UNCHANGED <<editorRest, toasts, invalidated, serverVars, updRequest,
                   currentPage, editingCell, editingValue, pendingChanges,
                   updateStatus, fixedVars, edits, collected>>

\* The grid after its first result, on page 1.
InitPage ==
    /\ OthersAtRest
    /\ EditorAtRestOn(1)
    /\ lastQueryConn = 1
    /\ store = [file |-> StoredData("mysql"), mem |-> EmptyData]
    /\ table = <<>>
    /\ resultRows \in PageResults
    /\ statement \in GridStatements
    /\ currentPage = 1
    /\ editingCell = NoCell
    /\ editingValue = ""
    /\ pendingChanges = <<>>
    /\ updateStatus = "idle"
    /\ tabDatabase = ""
    /\ inferred = NotInferred
    /\ edits = <<>>
    /\ collected = <<>>
    /\ updRequest = NoMessage
    /\ updResponse = NoMessage
    /\ issued = <<>>
    /\ handled = NoMessage

NextPageStep ==
    \/ PreviousPage
    \/ NextPage
    \/ ReplaceResult

SpecPage == InitPage /\ [][NextPageStep]_vars

\* C28: whenever the result on display has at least one row, the current
\* page lies between 1 and the number of pages and the slice of rows shown
\* is not empty, after any clicks on Previous and Next and any replacement
\* of the result by a later one.
C28_PageInRange ==
    Len(resultRows) >= 1
    => /\ 1 <= currentPage
       /\ currentPage <= TotalPages
       /\ CurrentRows # <<>>

\* ---------------------------------------- the history behind the result
\* The runs followed: the history grows to MaxHistory entries.
MaxHistory == 3

HistoryStatements == GridStatements \cup {<<"f", "r", "o", "m", " ", "u">>}

\* queryHistory.sort((a, b) => b.id - a.id): the array in descending order
\* of id, entries of equal id in the order they had.  The sort is in place.
InsertDescending(sorted, e) ==
    LET c == Cardinality({k \in 1..Len(sorted) : sorted[k].id >= e.id})
    IN SubSeq(sorted, 1, c) \o <<e>> \o SubSeq(sorted, c + 1, Len(sorted))

RECURSIVE SortDescending(_)
SortDescending(h) ==
    IF h = <<>> THEN <<>>
    ELSE InsertDescending(SortDescending(SubSeq(h, 1, Len(h) - 1)),
                          h[Len(h)])

\* queryHistory[queryHistory.length - 1]?.query || ''
StatementProp(h) == IF h = <<>> THEN <<>> ELSE h[Len(h)].query

\* lastQuery?.connectionId, of the first entry after the sort.
LastQueryConnection(h) ==
    IF h = <<>> THEN 0
    ELSE IF SortDescending(h)[1].connectionId = NULL THEN 0
    ELSE SortDescending(h)[1].connectionId

\* What the grid's handlers and the renders leave alone of the rest.
historyRest == <<editor, content, selectedText, monacoSelection, connectionId,
                 activeConnectionId, isExecuting, mutationStatus, toasts,
                 run, request, response, sent, served, updateVars,
                 resultRows, currentPage, editingCell, editingValue,
                 pendingChanges, updateStatus, tabDatabase, inferred, edits,
                 collected, runs, ops>>

\* One render of QueryResults and of the SingleQueryResult under it, on the
\* array h of the store: the parent reads the statement prop off the end of
\* the array, then the child sorts the array where it is.
Render(h) ==
    /\ statement' = StatementProp(h)
    /\ lastQueryConn' = LastQueryConnection(h)
    /\ queryHistory' = SortDescending(h)

\* A single-statement run that succeeds, from the request to onSuccess: the
\* endpoint appends the history entry, the client stores the result and
\* invalidates the history query, and the store change renders the result.
RunSucceeds ==
    /\ Len(store.file.queryHistories) < MaxHistory
    /\ \E q \in HistoryStatements :
          LET added == AddQueryHistory(store,
                           [connectionId |-> 1, query |-> q,
                            executionTime |-> 1, rowCount |-> 0], TRUE)
          IN /\ store' = [file |-> added.file, mem |-> added.mem]
             /\ resultOf' = q
    /\ queryResults' = [columns |-> <<>>, rows |-> <<>>, rowCount |-> 0,
                        executionTime |-> 1]
    /\ invalidated' = TRUE
    /\ Render(queryHistory)
    /\ UNCHANGED historyRest

\* The refetch of ["/api/query-history"] in the sidebar: the endpoint
\* answers with the stored entries in file order, the effect hands them to
\* setQueryHistory, and the store change renders the result.
RefreshHistory ==
    /\ invalidated
    /\ invalidated' = FALSE
    /\ Render(store.file.queryHistories)
    /\ UNCHANGED <<historyRest, store, queryResults, resultOf>>

\* Any other change of the store renders the result again: QueryResults and
\* SingleQueryResult subscribe to the whole store.
Rerender ==
    /\ resultOf # <<>>
    /\ Render(queryHistory)
    /\ UNCHANGED <<historyRest, store, queryResults, resultOf, invalidated>>

InitHistory ==
    /\ EditorAtRestOn(1)
    /\ store = [file |-> StoredData("mysql"), mem |-> EmptyData]
    /\ table = <<>>
    /\ updRequest = NoMessage
    /\ updResponse = NoMessage
    /\ issued = <<>>
    /\ handled = NoMessage
    /\ GridAtRest

NextHistory ==
    \/ RunSucceeds
    \/ RefreshHistory
    \/ Rerender

SpecHistory == InitHistory /\ [][NextHistory]_vars

\* C27: for a single-statement result, the statement the editable table is
\* inferred from is the statement that produced the result on display, in
\* every state in which the history has been refreshed since the last run.
C27_StatementOfResult ==
    (resultOf # <<>> /\ ~invalidated) => statement = resultOf

\* ------------------------------------------------------ overlapping runs
\* The runs followed, and the statements of a run.
MaxRuns == 3
MaxStatements == 2

\* What the handlers of a run leave alone.
runsRest == <<editor, content, selectedText, monacoSelection, connectionId,
              activeConnectionId, run, request, response, sent, served,
              store, updateVars, statement, resultRows, currentPage,
              editingCell, editingValue, pendingChanges, updateStatus,
              tabDatabase, lastQueryConn, inferred, edits, collected,
              queryHistory, resultOf, ops>>

\* The result a statement of these runs is answered with, and the results
\* executeMultipleStatements has pushed after n statements.
RunResult ==
    [columns |-> <<>>, rows |-> <<>>, rowCount |-> 0, executionTime |-> 1]

RunResults(n) == [k \in 1..n |-> MultiEntry([j \in 1..n |-> <<"a">>], k, RunResult)]

\* The runs with a statement request outstanding.
RunsInFlight == {r \in 1..Len(runs) : runs[r].left > 0}

\* executeQuery with a text to run and a connection, up to the first
\* request: from the Run button, which is disabled while isExecuting is set
\* or no connection is active, or from the Ctrl/Cmd+Enter command of the
\* Monaco editor, which is not.  One statement goes through
\* executeQueryMutation (onMutate raises the flag), several through
\* executeMultipleStatements (which raises it before its loop).
StartRun(via) ==
    /\ Len(runs) < MaxRuns
    /\ via = "button" => ~isExecuting /\ ActiveConnectionFound
    /\ via = "command" => editor = "monaco"
    /\ \E n \in 1..MaxStatements :
          /\ runs' = Append(runs,
                     [via |-> via,
                      path |-> IF n = 1 THEN "single" ELSE "multi",
                      n |-> n, left |-> n])
          /\ mutationStatus' = IF n = 1 THEN "pending" ELSE mutationStatus
          /\ toasts' = IF n = 1 THEN toasts
                       ELSE toasts \cup {"Executing statement"}
    /\ isExecuting' = TRUE
    /\ UNCHANGED <<runsRest, queryResults, invalidated>>

\* The response to the statement a run is waiting for.  A single run
\* settles: onSuccess stores the result, onError shows the error, onSettled
\* lowers the flag.  A multi run sends its next statement or, after the last
\* one or a failure, leaves the loop, and its finally block lowers the flag.
StatementSettles(r, ok) ==
    /\ r \in RunsInFlight
    /\ IF runs[r].path = "single"
       THEN /\ runs' = [runs EXCEPT ![r].left = 0]
            /\ isExecuting' = FALSE
            /\ mutationStatus' = IF ok THEN "success" ELSE "error"
            /\ IF ok
               THEN /\ queryResults' = RunResult
                    /\ invalidated' = TRUE
               ELSE UNCHANGED <<queryResults, invalidated>>
            /\ UNCHANGED toasts
       ELSE IF LoopContinues(ok, 2, runs[r].left)
       THEN /\ runs' = [runs EXCEPT ![r].left = @ - 1]
            /\ toasts' = toasts \cup {"Executing statement"}
            /\ UNCHANGED <<isExecuting, mutationStatus, queryResults,
                           invalidated>>
       ELSE /\ runs' = [runs EXCEPT ![r].left = 0]
            /\ isExecuting' = FALSE
            /\ IF ok
               THEN /\ queryResults' = MultiEnvelope(RunResults(runs[r].n))
                    /\ invalidated' = TRUE
               ELSE UNCHANGED <<queryResults, invalidated>>
            /\ UNCHANGED <<mutationStatus, toasts>>
    /\ UNCHANGED runsRest

\* The editor with a text to run and connection 1 active, nothing run yet.
InitRuns ==
    /\ editor \in {"textarea", "monaco"}
    /\ content = <<"a">>
    /\ selectedText = <<>>
    /\ monacoSelection = <<>>
    /\ connectionId = 1
    /\ activeConnectionId = 1
    /\ isExecuting = FALSE
    /\ queryResults = NoResults
    /\ mutationStatus = "idle"
    /\ toasts = {}
    /\ invalidated = FALSE
    /\ run = IdleRun
    /\ request = NoMessage
    /\ response = NoMessage
    /\ sent = <<>>
    /\ served = <<>>
    /\ store = [file |-> StoredData("mysql"), mem |-> EmptyData]
    /\ table = <<>>
    /\ updRequest = NoMessage
    /\ updResponse = NoMessage
    /\ issued = <<>>
    /\ handled = NoMessage
    /\ GridAtRest

NextRuns ==
    \/ StartRun("button")
    \/ StartRun("command")
    \/ \E r \in 1..MaxRuns, ok \in BOOLEAN : StatementSettles(r, ok)

SpecRuns == InitRuns /\ [][NextRuns]_vars

MaxOps == 3

\* What distinguishes the entity of one call from that of another: the
\* query text of a history entry, the database of a connection.
OpQuery(o) == IntToText(o)
OpDatabase(o) == <<"db1", "db2", "db3", "db4", "db5">>[o]

storageRest == <<editorVars, updateVars, statement, resultRows, currentPage,
                 editingCell, editingValue, pendingChanges, updateStatus,
                 tabDatabase, lastQueryConn, inferred, edits, collected,
                 queryHistory, resultOf, runs>>

\* A route handler calls addQueryHistory or createConnection: the method
\* awaits loadData, which awaits fs.readFile.
CallStorage(kind) ==
    /\ Len(ops) < MaxOps
    /\ ops' = Append(ops, [kind |-> kind, pc |-> "reading", id |-> 0,
                           snapshot |-> EmptyData])
    /\ UNCHANGED <<storageRest, store>>

\* this.data after the method has stamped and pushed its entity.
Stamped(data, kind, o) ==
    IF kind = "history"
    THEN [data EXCEPT
            !.nextHistoryId = @ + 1,
            !.queryHistories =
                Append(@, HistoryEntry(data,
                              [connectionId |-> 1, query |-> OpQuery(o),
                               executionTime |-> 1, rowCount |-> 1]))]
    ELSE [data EXCEPT
            !.nextConnectionId = @ + 1,
            !.connections =
                Append(@, [id |-> data.nextConnectionId, type |-> "mysql",
                           database |-> OpDatabase(o)])]

\* fs.readFile resolves for call o with what the file holds: loadData
\* replaces this.data by it, the method stamps its entity with the next id
\* and pushes it, and saveData serialises this.data and awaits
\* fs.writeFile.  Nothing else runs between these steps.
ReadResolves(o) ==
    /\ o \in 1..Len(ops)
    /\ ops[o].pc = "reading"
    /\ LET data == Stamped(store.file, ops[o].kind, o)
       IN /\ store' = [store EXCEPT !.mem = data]
          /\ ops' = [ops EXCEPT
                       ![o].pc = "writing",
                       ![o].id = IF ops[o].kind = "history"
                                 THEN store.file.nextHistoryId
                                 ELSE store.file.nextConnectionId,
                       ![o].snapshot = data]
    /\ UNCHANGED storageRest

\* fs.writeFile settles for call o: the file holds what the call
\* serialised and the method returns its entity, or saveData throws.
WriteSettles(o, writeOk) ==
    /\ o \in 1..Len(ops)
    /\ ops[o].pc = "writing"
    /\ IF writeOk
       THEN /\ store' = [store EXCEPT !.file = ops[o].snapshot]
            /\ ops' = [ops EXCEPT ![o].pc = "created"]
       ELSE /\ ops' = [ops EXCEPT ![o].pc = "threw"]
            /\ UNCHANGED store
    /\ UNCHANGED storageRest

InitStorage ==
    /\ EditorAtRest
    /\ store = [file |-> StoredData("mysql"), mem |-> EmptyData]
    /\ table = <<>>
    /\ updRequest = NoMessage
    /\ updResponse = NoMessage
    /\ issued = <<>>
    /\ handled = NoMessage
    /\ GridAtRest

NextStorage ==
    \/ CallStorage("history")
    \/ CallStorage("connection")
    \/ \E o \in 1..MaxOps : ReadResolves(o)
    \/ \E o \in 1..MaxOps, writeOk \in BOOLEAN : WriteSettles(o, writeOk)

SpecStorage == InitStorage /\ [][NextStorage]_vars

\* The entity call o was answered with is in the file.
Stored(o) ==
    IF ops[o].kind = "history"
    THEN \E k \in 1..Len(store.file.queryHistories) :
            /\ store.file.queryHistories[k].id = ops[o].id
            /\ store.file.queryHistories[k].query = OpQuery(o)
    ELSE \E k \in 1..Len(store.file.connections) :
            /\ store.file.connections[k].id = ops[o].id
            /\ store.file.connections[k].database = OpDatabase(o)

DistinctIds(entries) ==
    \A j, k \in 1..Len(entries) : entries[j].id = entries[k].id => j = k

\* C25: whatever the interleaving of the reads and writes of overlapping
\* storage calls, every history entry and connection a call has reported as
\* created is in the file (nothing is deleted here), and no two stored
\* entries share an id.
C25_CreatedStored ==
    /\ \A o \in 1..Len(ops) : ops[o].pc = "created" => Stored(o)
    /\ DistinctIds(store.file.queryHistories)
    /\ DistinctIds(store.file.connections)

====
